---- MODULE Spec2Model ----
(***************************************************************************)
(* Chain-of-thought calculator (cot_main.py): the conversation loop of     *)
(* main(), the directive validator validate_json and the error handler     *)
(* handle_tool_error, with the language model and the tool peer as         *)
(* nondeterministic environments.                                          *)
(*                                                                         *)
(* Text is modelled as a sequence of tokens.  A model output line is a     *)
(* record [toks, doc]: the tokens of the line, followed (when doc.t is not *)
(* "none") by one JSON text described by doc.                              *)
(***************************************************************************)
EXTENDS Integers, Sequences, FiniteSets, TLC

\* Bound of the model: the number of model responses dispatched in one run.
MaxCycles == 2

----------------------------------------------------------------------------
(* JSON values, as json.loads builds them *)

JAbsent == [t |-> "absent", v |-> ""]
JStr(s) == [t |-> "string", v |-> s]
JNum(s) == [t |-> "number", v |-> s]
JArr(s) == [t |-> "array", v |-> s]

\* the members of an "args" object the loop reads; absent members are JAbsent
NoMembers ==
    [expression |-> JAbsent, expected |-> JAbsent, steps |-> JAbsent,
     step_description |-> JAbsent]

ArgsAbsent == [t |-> "absent", m |-> NoMembers]
ArgsOf(kind) == [t |-> kind, m |-> NoMembers]
ArgsObj(members) == [t |-> "object", m |-> members]

\* a JSON text: an object with its "name" and "args" members, another JSON
\* value (array, string, number), or "none" when the text is not JSON
\* (src is the text itself, kept for the transcript)
Doc(kind, name, args, src) == [t |-> kind, name |-> name, args |-> args, src |-> src]
NoDoc == Doc("none", JAbsent, ArgsAbsent, "")
\* Python's None for parsed_json
NoneDoc == Doc("None", JAbsent, ArgsAbsent, "")

Line(toks, doc) == [toks |-> toks, doc |-> doc]

----------------------------------------------------------------------------
(* str methods on token sequences *)

IsSpace(tok) == tok \in {" ", "\n", "\t"}

\* str.startswith
startswith(s, prefix) ==
    /\ Len(s) >= Len(prefix)
    /\ SubSeq(s, 1, Len(prefix)) = prefix

\* index of the first occurrence of the token sequence sub in s, 0 when none
find(s, sub) ==
    LET hits == {i \in 1..(Len(s) - Len(sub) + 1) : SubSeq(s, i, i + Len(sub) - 1) = sub}
    IN  IF hits = {} THEN 0 ELSE CHOOSE i \in hits : \A j \in hits : i <= j

\* str.replace(old, "", 1): the first occurrence of old removed
replace_first(s, old) ==
    LET i == find(s, old)
    IN  IF i = 0 THEN s
        ELSE SubSeq(s, 1, i - 1) \o SubSeq(s, i + Len(old), Len(s))

\* str.strip on tokens: leading and trailing whitespace tokens removed
strip(s) ==
    LET keep == {i \in 1..Len(s) : ~IsSpace(s[i])}
    IN  IF keep = {} THEN << >>
        ELSE LET lo == CHOOSE i \in keep : \A j \in keep : i <= j
                 hi == CHOOSE i \in keep : \A j \in keep : i >= j
             IN  SubSeq(s, lo, hi)

\* str.split(sep): the pieces between the occurrences of the token sep
RECURSIVE split(_, _)
split(s, sep) ==
    LET i == find(s, <<sep>>)
    IN  IF i = 0 THEN <<s>>
        ELSE <<SubSeq(s, 1, i - 1)>> \o split(SubSeq(s, i + 1, Len(s)), sep)

----------------------------------------------------------------------------
(* float() *)

NumericTexts == {"0", "5", "30", "210"}

NumOf(s) ==
    CASE s = "0" -> 0
      [] s = "5" -> 5
      [] s = "30" -> 30
      [] s = "210" -> 210
      [] OTHER -> 0

\* float(text) on a token sequence: surrounding whitespace is accepted;
\* anything but one numeric token raises ValueError
float_text_ok(s) == Len(strip(s)) = 1 /\ strip(s)[1] \in NumericTexts
float_text(s) == NumOf(strip(s)[1])

\* float(x) on a JSON value; the absent member has the default 0 of args.get
float_json_ok(j) ==
    \/ j.t = "absent"
    \/ j.t = "number"
    \/ j.t = "string" /\ j.v \in NumericTexts
float_json(j) == IF j.t = "absent" THEN 0 ELSE NumOf(j.v)

----------------------------------------------------------------------------
(* validate_json *)

FC_PREFIX == <<"FUNCTION_CALL:", " ">>
FC_MARK == <<"FUNCTION_CALL:">>
FA_MARK == <<"FINAL_ANSWER:">>

\* json.loads of the text made of the tokens rest followed by doc:
\* whitespace around one JSON text is accepted, anything else raises
json_loads_ok(rest, doc) == strip(rest) = << >> /\ doc.t # "none"

ValidationResult(ok, parsed, msg) == [ok |-> ok, parsed |-> parsed, msg |-> msg]

\* mutant of validate_json: 'args' is looked at before 'name'
validate_json_args_first(function_call) ==
    IF ~startswith(function_call.toks, FC_PREFIX)
    THEN ValidationResult(FALSE, NoneDoc, "Invalid format: Must start with 'FUNCTION_CALL: '")
    ELSE LET json_str == replace_first(function_call.toks, FC_PREFIX)
             parsed_json == function_call.doc
         IN  IF ~json_loads_ok(json_str, parsed_json)
             THEN ValidationResult(FALSE, NoneDoc, "Invalid JSON format")
             ELSE IF parsed_json.t # "object"
             THEN ValidationResult(FALSE, NoneDoc, "Invalid JSON: Must be an object")
             ELSE IF parsed_json.args.t = "absent"
             THEN ValidationResult(FALSE, NoneDoc, "Missing required field: 'args'")
             ELSE IF parsed_json.args.t # "object"
             THEN ValidationResult(FALSE, NoneDoc, "Invalid field: 'args' must be an object")
             ELSE IF parsed_json.name.t = "absent"
             THEN ValidationResult(FALSE, NoneDoc, "Missing required field: 'name'")
             ELSE IF parsed_json.name.t # "string"
             THEN ValidationResult(FALSE, NoneDoc, "Invalid field: 'name' must be a string")
             ELSE ValidationResult(TRUE, parsed_json, "Validation successful")

\* lines 58-89; json.loads raises JSONDecodeError on a text that is not JSON
validate_json(function_call) ==
    IF ~startswith(function_call.toks, FC_PREFIX)
    THEN ValidationResult(FALSE, NoneDoc, "Invalid format: Must start with 'FUNCTION_CALL: '")
    ELSE LET json_str == replace_first(function_call.toks, FC_PREFIX)
             parsed_json == function_call.doc
         IN  IF ~json_loads_ok(json_str, parsed_json)
             THEN ValidationResult(FALSE, NoneDoc, "Invalid JSON format")
             ELSE IF parsed_json.t # "object"
             THEN ValidationResult(FALSE, NoneDoc, "Invalid JSON: Must be an object")
             ELSE IF parsed_json.name.t = "absent"
             THEN ValidationResult(FALSE, NoneDoc, "Missing required field: 'name'")
             ELSE IF parsed_json.name.t # "string"
             THEN ValidationResult(FALSE, NoneDoc, "Invalid field: 'name' must be a string")
             ELSE IF parsed_json.args.t = "absent"
             THEN ValidationResult(FALSE, NoneDoc, "Missing required field: 'args'")
             ELSE IF parsed_json.args.t # "object"
             THEN ValidationResult(FALSE, NoneDoc, "Invalid field: 'args' must be an object")
             ELSE ValidationResult(TRUE, parsed_json, "Validation successful")

----------------------------------------------------------------------------
(* The environment: what the model and the tool peer can answer *)

problem == "(23 + 7) * (15 - 8) * (12.5/25.0)"

CalcDoc ==
    Doc("object", JStr("calculate"),
        ArgsObj([NoMembers EXCEPT !.expression = JStr("23 + 7")]),
        "{calculate 23 + 7}")
VerifyDoc(exp, src) ==
    Doc("object", JStr("verify"),
        ArgsObj([NoMembers EXCEPT !.expression = JStr("23 + 7"), !.expected = exp]),
        src)

\* raw model outputs (response.text) of the main loop
ModelResponses ==
    { Line(FC_PREFIX, Doc("object", JStr("show_reasoning"),
                          ArgsObj([NoMembers EXCEPT !.steps = JArr("[steps]")]),
                          "{show_reasoning [steps]}")),
      Line(FC_PREFIX \o <<"show_reasoning", "|", "[steps]">>, NoDoc),
      Line(FC_PREFIX, CalcDoc),
      Line(FC_PREFIX, Doc("object", JStr("calculate"), ArgsAbsent, "{calculate}")),
      Line(FC_MARK, CalcDoc),
      Line(FC_PREFIX, VerifyDoc(JNum("30"), "{verify 23 + 7 = 30}")),
      Line(FC_PREFIX, VerifyDoc(JStr("abc"), "{verify 23 + 7 = abc}")),
      Line(FC_PREFIX, Doc("object", JStr("fallback_reasoning"),
                          ArgsObj([NoMembers EXCEPT !.step_description = JStr("unsure")]),
                          "{fallback_reasoning unsure}")),
      Line(FC_PREFIX, Doc("object", JStr("fallback"), ArgsObj(NoMembers),
                          "{fallback unsure}")),
      Line(<<" ">> \o FA_MARK \o <<" ", "[", "210", "]", "\n">>, NoDoc),
      Line(FA_MARK \o <<" ", "210">>, NoDoc),
      Line(FA_MARK \o <<" ", "[", "abc", "]">>, NoDoc),
      Line(<<"Let", " ", "me", " ", "think">>, NoDoc) }

\* raw texts the model can give to the self-check query
SelfCheckTexts == { <<"YES">>, <<"YES", "\n">>, <<"looks", " ", "wrong">>, <<" ">> }

\* ways a model query can end without a response object, or with an empty text
NoResponseKinds == {"timeout", "error", "empty"}

\* content[0].text of the calculate tool
CalcTexts == { <<"30">>, <<"abc">> }
\* content[0].text of the verify tool
VerifyTexts == { <<"True">>, <<"False">>, <<"FALSE">> }

\* mutant of lower: the comparison becomes case-sensitive
lower_identity(s) == s

\* str.lower on one-token texts
lower(s) ==
    IF s \in {<<"False">>, <<"FALSE">>} THEN <<"false">>
    ELSE IF s = <<"True">> THEN <<"true">>
    ELSE s

\* the text of a line, as the f-strings render it
str(line) == line.toks \o (IF line.doc.t = "none" THEN << >> ELSE <<line.doc.src>>)

\* response.text.strip(): the JSON text, when there is one, ends the line
strip_line(line) ==
    IF line.doc.t = "none" THEN Line(strip(line.toks), NoDoc)
    ELSE LET keep == {i \in 1..Len(line.toks) : ~IsSpace(line.toks[i])}
         IN  IF keep = {} THEN Line(<< >>, line.doc)
             ELSE Line(SubSeq(line.toks,
                              CHOOSE i \in keep : \A j \in keep : i <= j,
                              Len(line.toks)),
                       line.doc)

----------------------------------------------------------------------------
(* State *)

VARIABLES
    pc,                    \* position of main(): the next network call, or the end
    site,                  \* the except clause whose handle_tool_error call is pending
    prompt,                \* the transcript, a token sequence
    conversation_history,  \* the CalculationRecords
    response,              \* last outcome of the main model query
    result,                \* response.text.strip() of the cycle
    validation,            \* (is_valid, parsed_json, validation_message)
    expression,            \* local of the calculate and verify branches
    value,                 \* calc_result.content[0].text
    expected,              \* local of the verify branch; unbound until first assigned
    final_answer,          \* local of the FINAL_ANSWER branch
    calls,                 \* network calls issued since the last main model query
    cycle_start,           \* Len(prompt) when the cycle's response arrived
    history_start,         \* Len(conversation_history) when the cycle's response arrived
    contents,              \* the prompt given to the last main model query
    queries,               \* main model queries issued so far
    cycles,                \* model responses dispatched so far
    abandoned,             \* timed-out generate_content calls still running in the executor
    notice                 \* what the run printed at its end

vars == <<pc, site, prompt, conversation_history, response, result, validation,
          expression, value, expected, final_answer, calls, cycle_start,
          history_start, contents, queries, cycles, abandoned, notice>>

EmptyLine == Line(<< >>, NoDoc)
Unbound == [bound |-> FALSE, val |-> 0]
Bound(n) == [bound |-> TRUE, val |-> n]

\* one network call: a tool call of the session, or a generate_content query
Call(tool, arg, num, status, out) ==
    [tool |-> tool, arg |-> arg, num |-> num, status |-> status, out |-> out]

\* the turns the loop synthesizes
NEXT_STEP == <<"\nUser: Next step?">>
ERROR_TURN ==
    <<"\nUser: Error occurred. Fallback triggered. Please reconsider this step or try an alternative approach.">>
RESULT_TURN(v) == <<"\nUser: Result is ">> \o v \o <<". Let's verify this step.">>
VERIFY_TURN == <<"\nUser: Verification completed. Next step?">>
FALLBACK_TURN ==
    <<"\nUser: Fallback processed. Please proceed with an alternative approach.">>
ASSISTANT_TURN(line) == <<"\nAssistant: ">> \o str(line)

Init ==
    /\ pc = "query"
    /\ site = "none"
    /\ prompt = <<"system_prompt", "\n\nSolve this problem step by step: ", problem>>
    /\ conversation_history = << >>
    /\ response = [ok |-> FALSE, why |-> "", text |-> EmptyLine]
    /\ result = EmptyLine
    /\ validation = ValidationResult(FALSE, NoneDoc, "")
    /\ expression = ""
    /\ value = << >>
    /\ expected = Unbound
    /\ final_answer = Unbound
    /\ calls = << >>
    /\ cycle_start = Len(prompt)
    /\ history_start = 0
    /\ contents = << >>
    /\ queries = 0
    /\ cycles = 0
    /\ abandoned = 0
    /\ notice = "none"

----------------------------------------------------------------------------
(* Control flow of one cycle.  Each operator below fixes pc, site, prompt, *)
(* conversation_history and notice of the next state.                      *)

\* mutant of EndCycle: the assistant turn is assigned, not appended
EndCycle_assigned(p, h, line) ==
    /\ prompt' = ASSISTANT_TURN(line)
    /\ conversation_history' = h
    /\ pc' = "query"
    /\ site' = "none"
    /\ notice' = notice

\* mutant of EndCycle: the assistant turn is appended twice
EndCycle_twice(p, h, line) ==
    /\ prompt' = p \o ASSISTANT_TURN(line) \o ASSISTANT_TURN(line)
    /\ conversation_history' = h
    /\ pc' = "query"
    /\ site' = "none"
    /\ notice' = notice

\* line 293: the cycle ends; the raw model output becomes an assistant turn
EndCycle(p, h, line) ==
    /\ prompt' = p \o ASSISTANT_TURN(line)
    /\ conversation_history' = h
    /\ pc' = "query"
    /\ site' = "none"
    /\ notice' = notice

\* control moves on to the network call at label l
Goto(p, l) ==
    /\ prompt' = p
    /\ conversation_history' = conversation_history
    /\ pc' = l
    /\ site' = "none"
    /\ notice' = notice

\* an exception reaches the except clause s, whose first act is the
\* fallback_reasoning call of handle_tool_error.  The clause of the verify
\* branch (line 262) formats `expected` first: unbound, that raises again and
\* the clause of line 276 takes over.
Except(p, s, exp) ==
    /\ prompt' = p
    /\ conversation_history' = conversation_history
    /\ pc' = "handle_tool_error"
    /\ site' = IF s = "verify" /\ ~exp.bound THEN "general" ELSE s
    /\ notice' = notice

\* line 291/159 then 295: the loop is left by break
Break(p) ==
    /\ prompt' = p
    /\ conversation_history' = conversation_history
    /\ pc' = "done"
    /\ site' = "none"
    /\ notice' = "completed"

\* an exception leaves the loop and is caught at line 297
Crash(p) ==
    /\ prompt' = p
    /\ conversation_history' = conversation_history
    /\ pc' = "crashed"
    /\ site' = "none"
    /\ notice' = "error"

\* lines 225-226: the result follow-up, then the record; float(value) may raise
ResultFollowUp(p, v, line) ==
    LET p2 == p \o RESULT_TURN(v)
    IN  IF float_text_ok(v)
        THEN EndCycle(p2, Append(conversation_history,
                                 [expression |-> expression, result |-> float_text(v)]),
                      line)
        ELSE Except(p2, "calculate", expected)

\* where an exception raised by the handle_tool_error call of clause s goes
Enclosing(s) ==
    CASE s = "self_check_none" -> "self_check"
      [] s = "self_check" -> "calculate"
      [] s = "calc_empty" -> "calculate"
      [] OTHER -> "general"

\* step_context of the handle_tool_error call of clause s
step_context(s) ==
    CASE s = "show_reasoning" -> "show_reasoning with steps:"
      [] s = "self_check_none" -> "self-check for calculation: = value"
      [] s = "self_check" -> "self-check for calculation:"
      [] s = "calc_empty" -> "calculate:"
      [] s = "calculate" -> "calculate:"
      [] s = "verify" -> "verify:"
      [] OTHER -> "general tool execution"

\* args.get(key, default) for a string member
get_str(j, default) == IF j.t = "absent" THEN default ELSE j.v

----------------------------------------------------------------------------
(* The main model query, lines 157-164 and 283-293 *)

\* mutant of ModelNoResponse: the query is issued again
ModelNoResponse_retry ==
    /\ pc = "query"
    /\ cycles < MaxCycles
    /\ \E why \in NoResponseKinds :
        /\ response' = [ok |-> FALSE, why |-> why, text |-> EmptyLine]
        /\ abandoned' = IF why = "timeout" THEN abandoned + 1 ELSE abandoned
    /\ contents' = prompt
    /\ queries' = queries + 1
    /\ cycles' = cycles + 1
    /\ Goto(prompt, "query")
    /\ UNCHANGED <<result, validation, expression, value, expected, final_answer,
                   calls, cycle_start, history_start>>

\* generate_with_timeout returned None, or a response with no text: break
ModelNoResponse ==
    /\ pc = "query"
    /\ \E why \in NoResponseKinds :
        /\ response' = [ok |-> FALSE, why |-> why, text |-> EmptyLine]
        /\ abandoned' = IF why = "timeout" THEN abandoned + 1 ELSE abandoned
    /\ contents' = prompt
    /\ queries' = queries + 1
    /\ Break(prompt)
    /\ UNCHANGED <<result, validation, expression, value, expected, final_answer,
                   calls, cycle_start, history_start, cycles>>

Received(raw) ==
    /\ response' = [ok |-> TRUE, why |-> "", text |-> raw]
    /\ result' = strip_line(raw)
    /\ calls' = << >>
    /\ cycle_start' = Len(prompt)
    /\ history_start' = Len(conversation_history)
    /\ contents' = prompt
    /\ queries' = queries + 1
    /\ cycles' = cycles + 1
    /\ abandoned' = abandoned

\* a line with neither marker: only the assistant turn
RecvUnrecognized ==
    /\ pc = "query"
    /\ cycles < MaxCycles
    /\ \E raw \in ModelResponses :
        LET line == strip_line(raw)
        IN  /\ ~startswith(line.toks, FC_MARK)
            /\ ~startswith(line.toks, FA_MARK)
            /\ Received(raw)
            /\ EndCycle(prompt, conversation_history, line)
    /\ UNCHANGED <<validation, expression, value, expected, final_answer>>

\* lines 164-172, and each branch up to its first network call
RecvFunctionCall ==
    /\ pc = "query"
    /\ cycles < MaxCycles
    /\ \E raw \in ModelResponses :
        LET line == strip_line(raw)
            v == validate_json(line)
            func_name == v.parsed.name.v
            args == v.parsed.args.m
        IN  /\ startswith(line.toks, FC_MARK)
            /\ Received(raw)
            /\ validation' = v
            /\ final_answer' = final_answer
            /\ value' = value
            /\ IF v.parsed.t # "object"
               THEN /\ EndCycle(prompt, conversation_history, line)
                    /\ UNCHANGED <<expression, expected>>
               ELSE CASE func_name = "show_reasoning" ->
                           /\ Goto(prompt, "call_show_reasoning")
                           /\ UNCHANGED <<expression, expected>>
                      [] func_name = "calculate" ->
                           /\ expression' = get_str(args.expression, "")
                           /\ expected' = expected
                           /\ Goto(prompt, "call_calculate")
                      [] func_name = "verify" ->
                           /\ expression' = get_str(args.expression, "")
                           /\ IF float_json_ok(args.expected)
                              THEN /\ expected' = Bound(float_json(args.expected))
                                   /\ Goto(prompt, "call_verify")
                              ELSE /\ expected' = expected
                                   /\ Except(prompt, "verify", expected)
                      [] func_name = "fallback_reasoning" ->
                           /\ Goto(prompt, "call_fallback_direct")
                           /\ UNCHANGED <<expression, expected>>
                      [] OTHER ->
                           /\ EndCycle(prompt, conversation_history, line)
                           /\ UNCHANGED <<expression, expected>>

\* mutant of final_payload: the piece before the first "[" is taken
final_payload_first_piece(line) ==
    LET payload == split(split(line.toks, "[")[1], "]")[1]
    IN  IF float_text_ok(payload) THEN Bound(float_text(payload)) ELSE Unbound

\* line 286: float(result.split("[")[1].split("]")[0]); unbound when it raises
\* (IndexError without a "[", ValueError on a text that is no number)
final_payload(line) ==
    LET pieces == split(line.toks, "[")
    IN  IF Len(pieces) < 2 THEN Unbound
        ELSE LET payload == split(pieces[2], "]")[1]
             IN  IF float_text_ok(payload) THEN Bound(float_text(payload)) ELSE Unbound

\* mutant of final_answer_branch: the history is not consulted
final_answer_branch_unguarded(h, line) ==
    IF final_payload(line).bound THEN "verify" ELSE "raise"

\* lines 285-291: what the FINAL_ANSWER branch does with history h
final_answer_branch(h, line) ==
    IF h = << >> THEN "break"
    ELSE IF final_payload(line).bound THEN "verify"
    ELSE "raise"

\* lines 283-291
RecvFinalAnswer ==
    /\ pc = "query"
    /\ cycles < MaxCycles
    /\ \E raw \in ModelResponses :
        LET line == strip_line(raw)
            branch == final_answer_branch(conversation_history, line)
        IN  /\ ~startswith(line.toks, FC_MARK)
            /\ startswith(line.toks, FA_MARK)
            /\ Received(raw)
            /\ CASE branch = "break" -> Break(prompt) /\ final_answer' = final_answer
                 [] branch = "verify" ->
                      /\ final_answer' = final_payload(line)
                      /\ Goto(prompt, "call_final_verify")
                 [] OTHER -> Crash(prompt) /\ final_answer' = final_answer
    /\ UNCHANGED <<validation, expression, value, expected>>

----------------------------------------------------------------------------
(* The network calls of a cycle.  A tool call (session.call_tool) raises or *)
(* returns a content list, here its first text or << >> when it is empty.   *)

Issue(tool, arg, num, status, out) ==
    calls' = Append(calls, Call(tool, arg, num, status, out))

Locals == <<response, result, validation, expression, expected, final_answer,
            cycle_start, history_start, contents, queries, cycles>>

\* lines 174-183
CallShowReasoning ==
    /\ pc = "call_show_reasoning"
    /\ \E status \in {"ok", "raise"} :
        /\ Issue("show_reasoning", get_str(validation.parsed.args.m.steps, "[]"), 0,
                 status, << >>)
        /\ IF status = "ok"
           THEN EndCycle(prompt \o NEXT_STEP, conversation_history, result)
           ELSE Except(prompt, "show_reasoning", expected)
    /\ UNCHANGED <<Locals, value, abandoned>>

\* lines 186-191 and 227-239
CallCalculate ==
    /\ pc = "call_calculate"
    /\ \/ /\ Issue("calculate", expression, 0, "raise", << >>)
          /\ Except(prompt, "calculate", expected)
          /\ value' = value
       \/ /\ Issue("calculate", expression, 0, "ok", << >>)
          /\ Except(prompt, "calc_empty", expected)
          /\ value' = value
       \/ \E text \in CalcTexts :
          /\ Issue("calculate", expression, 0, "ok", text)
          /\ value' = text
          /\ Goto(prompt, "self_check")
    /\ UNCHANGED <<Locals, abandoned>>

\* get_llm_response, lines 38-43, on the outcome of generate_with_timeout:
\* None unless there is a response with a non-empty text, else the stripped text
get_llm_response(ok, text) ==
    IF ok /\ text # << >> THEN [some |-> TRUE, text |-> strip(text)]
    ELSE [some |-> FALSE, text |-> << >>]

\* lines 194-212: the self-check query and what the loop makes of its answer
SelfCheck ==
    /\ pc = "self_check"
    /\ \E status \in {"ok", "timeout", "error"} :
       \E text \in IF status = "ok" THEN SelfCheckTexts \cup {<< >>} ELSE {<< >>} :
        LET self_check_response == get_llm_response(status = "ok", text)
        IN  /\ Issue("generate_content", "self_check_prompt", 0, status, text)
            /\ abandoned' = IF status = "timeout" THEN abandoned + 1 ELSE abandoned
            /\ IF ~self_check_response.some \/ self_check_response.text = << >>
               THEN Except(prompt, "self_check_none", expected)
               ELSE IF strip(self_check_response.text) # <<"YES">>
               THEN Goto(prompt, "call_fallback_concern")
               ELSE ResultFollowUp(prompt, value, result)
    /\ UNCHANGED <<Locals, value>>

\* lines 214-216, then 225-226
CallFallbackConcern ==
    /\ pc = "call_fallback_concern"
    /\ \E status \in {"ok", "raise"} :
        /\ Issue("fallback_reasoning", "Self-check concerns:", 0, status, << >>)
        /\ IF status = "ok"
           THEN ResultFollowUp(prompt, value, result)
           ELSE Except(prompt, "self_check", expected)
    /\ UNCHANGED <<Locals, value, abandoned>>

\* lines 245-250, 256
CallVerify ==
    /\ pc = "call_verify"
    /\ \/ /\ Issue("verify", expression, expected.val, "raise", << >>)
          /\ Except(prompt, "verify", expected)
       \/ \E text \in VerifyTexts \cup {<< >>} :
          /\ Issue("verify", expression, expected.val, "ok", text)
          /\ IF text # << >> /\ lower(text) = <<"false">>
             THEN Goto(prompt, "call_fallback_verify")
             ELSE EndCycle(prompt \o VERIFY_TURN, conversation_history, result)
    /\ UNCHANGED <<Locals, value, abandoned>>

\* mutant of CallFallbackVerify: the follow-up is left out after the fallback
CallFallbackVerify_no_follow_up ==
    /\ pc = "call_fallback_verify"
    /\ \E status \in {"ok", "raise"} :
        /\ Issue("fallback_reasoning", "Verification failed for", 0, status, << >>)
        /\ IF status = "ok"
           THEN EndCycle(prompt, conversation_history, result)
           ELSE Except(prompt, "verify", expected)
    /\ UNCHANGED <<Locals, value, abandoned>>

\* lines 252-256
CallFallbackVerify ==
    /\ pc = "call_fallback_verify"
    /\ \E status \in {"ok", "raise"} :
        /\ Issue("fallback_reasoning", "Verification failed for", 0, status, << >>)
        /\ IF status = "ok"
           THEN EndCycle(prompt \o VERIFY_TURN, conversation_history, result)
           ELSE Except(prompt, "verify", expected)
    /\ UNCHANGED <<Locals, value, abandoned>>

\* lines 267-274: a failure is printed and nothing is added to the transcript
CallFallbackDirect ==
    /\ pc = "call_fallback_direct"
    /\ \E status \in {"ok", "raise"} :
        /\ Issue("fallback_reasoning",
                 get_str(validation.parsed.args.m.step_description, ""), 0, status, << >>)
        /\ IF status = "ok"
           THEN EndCycle(prompt \o FALLBACK_TURN, conversation_history, result)
           ELSE EndCycle(prompt, conversation_history, result)
    /\ UNCHANGED <<Locals, value, abandoned>>

\* lines 287-291: the confirming verify call, outside every try of the loop
CallFinalVerify ==
    /\ pc = "call_final_verify"
    /\ \/ /\ Issue("verify", problem, final_answer.val, "raise", << >>)
          /\ Crash(prompt)
       \/ \E text \in VerifyTexts \cup {<< >>} :
          /\ Issue("verify", problem, final_answer.val, "ok", text)
          /\ Break(prompt)
    /\ UNCHANGED <<Locals, value, abandoned>>

\* handle_tool_error, lines 91-98, called from the except clause `site`.  Its
\* fallback_reasoning call is not guarded: when it raises, the exception goes
\* to the enclosing clause, and from the clause of line 276 out of the loop.
handle_tool_error ==
    /\ pc = "handle_tool_error"
    /\ \E status \in {"ok", "raise"} :
        /\ Issue("fallback_reasoning", step_context(site), 0, status, << >>)
        /\ IF status = "ok"
           THEN IF site \in {"self_check_none", "self_check"}
                THEN ResultFollowUp(prompt \o ERROR_TURN, value, result)
                ELSE EndCycle(prompt \o ERROR_TURN, conversation_history, result)
           ELSE IF site = "general"
                THEN Crash(prompt)
                ELSE Except(prompt, Enclosing(site), expected)
    /\ UNCHANGED <<Locals, value, abandoned>>

\* generate_with_timeout, lines 23-32: wait_for gives up on the executor's
\* future, the worker thread runs generate_content to its end
ExecutorThreadEnds ==
    /\ abandoned > 0
    /\ abandoned' = abandoned - 1
    /\ UNCHANGED <<pc, site, prompt, conversation_history, Locals, value, calls, notice>>

Next ==
    \/ ModelNoResponse
    \/ RecvUnrecognized
    \/ RecvFunctionCall
    \/ RecvFinalAnswer
    \/ CallShowReasoning
    \/ CallCalculate
    \/ SelfCheck
    \/ CallFallbackConcern
    \/ CallVerify
    \/ CallFallbackVerify
    \/ CallFallbackDirect
    \/ CallFinalVerify
    \/ handle_tool_error
    \/ ExecutorThreadEnds

Spec == Init /\ [][Next]_vars

----------------------------------------------------------------------------
(* Properties *)

\* the lines of ModelResponses the properties name, as the loop sees them
FinalAnswerLine == Line(FA_MARK \o <<" ", "[", "210", "]">>, NoDoc)
MissingArgsLine ==
    Line(FC_PREFIX, Doc("object", JStr("calculate"), ArgsAbsent, "{calculate}"))
PipeLine == Line(FC_PREFIX \o <<"show_reasoning", "|", "[steps]">>, NoDoc)
CalculateLine == Line(FC_PREFIX, CalcDoc)

\* the text the current cycle has added to the transcript
Added == SubSeq(prompt, cycle_start + 1, Len(prompt))
Has(text, turn) == find(text, turn) # 0

CallsTo(tool) == {i \in 1..Len(calls) : calls[i].tool = tool}

\* the loop is between cycles, or over, and the last model query had a response
CycleOver == pc \in {"query", "done", "crashed"} /\ response.ok
\* the response of the current cycle is a FINAL_ANSWER line
IsFinalAnswer == response.ok /\ startswith(result.toks, FA_MARK)
\* the response of the current cycle is a validated directive named name
IsDirective(name) ==
    /\ response.ok
    /\ startswith(result.toks, FC_MARK)
    /\ validation.ok
    /\ validation.parsed.name.v = name

\* C1 as stated: the loop never terminates through FINAL_ANSWER while the
\* calculation history is empty.
C1_Original ==
    ~(pc = "done" /\ IsFinalAnswer /\ conversation_history = << >>)

\* C1, amended: a FINAL_ANSWER directive is verified (the confirming verify
\* call against the problem is reached or issued) only when the calculation
\* history is non-empty; with an empty history the loop still terminates.
C1_VerifiedOnlyWithHistory ==
    /\ pc = "call_final_verify" => conversation_history # << >>
    /\ \A i \in CallsTo("verify") :
         calls[i].arg = problem => conversation_history # << >>
    /\ (IsFinalAnswer /\ conversation_history = << >>) => pc = "done"

C1_Witness ==
    /\ pc = "done"
    /\ IsFinalAnswer
    /\ conversation_history # << >>
    /\ CallsTo("verify") # {}
    /\ calls[1].arg = problem
    /\ calls[1].status = "ok"

\* C2: a FINAL_ANSWER directive with a non-empty history issues exactly one
\* verify call, on the problem statement and the bracketed number; with an
\* empty history it issues no call; and in both cases the loop never returns
\* to a model query, whatever that verify call did.
C2_FinalAnswerVerify ==
    IsFinalAnswer =>
        /\ pc \in {"call_final_verify", "done", "crashed"}
        /\ conversation_history = << >> => calls = << >>
        /\ (conversation_history # << >> /\ result = FinalAnswerLine /\ pc # "call_final_verify") =>
             /\ Len(calls) = 1
             /\ calls[1].tool = "verify"
             /\ calls[1].arg = problem
             /\ calls[1].num = 210

C2_Witness ==
    /\ IsFinalAnswer
    /\ result = FinalAnswerLine
    /\ conversation_history # << >>
    /\ pc = "crashed"
    /\ Len(calls) = 1
    /\ calls[1].status = "raise"

FallbackCalls == CallsTo("fallback_reasoning")

\* the calculate tool call of the current cycle failed: it raised, or it
\* returned an empty content
CalculateFailed ==
    /\ IsDirective("calculate")
    /\ calls # << >>
    /\ calls[1].tool = "calculate"
    /\ (calls[1].status = "raise" \/ calls[1].out = << >>)

\* C3 as stated: a calculate directive whose tool call fails never raises out
\* of the loop, and its cycle ends with the fallback follow-up turn in the
\* transcript and the loop back at the model query.
C3_Claim ==
    CalculateFailed =>
        /\ pc # "crashed"
        /\ pc = "query" => Has(Added, ERROR_TURN)

\* the verify tool call of the current cycle returned the text 'false' in
\* some letter case / returned something else
VerifyReturned ==
    /\ IsDirective("verify")
    /\ calls # << >>
    /\ calls[1].tool = "verify"
    /\ calls[1].status = "ok"
VerifyFalse == VerifyReturned /\ calls[1].out \in {<<"false">>, <<"False">>, <<"FALSE">>}
VerifyOther == VerifyReturned /\ calls[1].out \notin {<<"false">>, <<"False">>, <<"FALSE">>}

\* C4 as stated: after a verify result 'false', exactly one fallback_reasoning
\* call is issued before the next model query; after any other result, none.
C4_Original ==
    /\ (VerifyFalse /\ pc \in {"query", "crashed"}) => Cardinality(FallbackCalls) = 1
    /\ VerifyOther => FallbackCalls = {}

\* C4, amended: after a verify result 'false' at least one fallback_reasoning
\* call is issued before the next model query; a further one is issued only
\* when the previous one failed (at most three: lines 252, 259, 277), so the
\* last one is the only one that can succeed, and it has succeeded whenever
\* the loop goes on to the next model query.  After any other result, none.
C4_FallbackAfterFalse ==
    /\ (VerifyFalse /\ pc \in {"query", "crashed"}) =>
         /\ FallbackCalls # {}
         /\ Cardinality(FallbackCalls) <= 3
         /\ FallbackCalls = 2..Len(calls)
         /\ \A i \in FallbackCalls : i < Len(calls) => calls[i].status = "raise"
         /\ calls[Len(calls)].status = (IF pc = "query" THEN "ok" ELSE "raise")
    /\ VerifyOther => FallbackCalls = {}

C4_Witness ==
    /\ VerifyFalse
    /\ calls[1].out = <<"FALSE">>
    /\ pc = "query"
    /\ Cardinality(FallbackCalls) = 1
    /\ calls[2].status = "ok"
    /\ Has(Added, VERIFY_TURN)

\* C5 as stated: a FUNCTION_CALL line without 'args' gets the message
\* "Missing required field: 'args'", is not dispatched, and goes through the
\* Fallback Handler: one fallback_reasoning call and the error follow-up turn.
C5_Claim ==
    (CycleOver /\ result = MissingArgsLine) =>
        /\ validation.msg = "Missing required field: 'args'"
        /\ CallsTo("calculate") = {}
        /\ Cardinality(FallbackCalls) = 1
        /\ Has(Added, ERROR_TURN)

\* C6 as stated: the pipe form of show_reasoning results in one
\* show_reasoning tool call with its steps and in the 'Next step?' turn.
C6_Claim ==
    (CycleOver /\ result = PipeLine) =>
        /\ Cardinality(CallsTo("show_reasoning")) = 1
        /\ \A i \in CallsTo("show_reasoning") : calls[i].arg = "[steps]"
        /\ Has(Added, NEXT_STEP)

\* C7 as stated: every run that ends on one of the exit paths the claim names
\* (model non-response, or a FINAL_ANSWER directive whatever its verify call
\* does) has emitted the completion notice.
C7_Claim ==
    (pc \in {"done", "crashed"} /\ (~response.ok \/ result = FinalAnswerLine)) =>
        notice = "completed"

\* C8 as stated: no error but model non-response ends the run, and an
\* invalid directive is turned into a fallback follow-up turn.
C8_Claim ==
    /\ pc # "crashed"
    /\ (pc = "done" /\ IsFinalAnswer) => final_answer_branch(conversation_history, result) # "raise"
    /\ (pc = "query" /\ response.ok /\ startswith(result.toks, FC_PREFIX) /\ ~validation.ok) =>
         Has(Added, ERROR_TURN)

endswith(s, suffix) ==
    /\ Len(s) >= Len(suffix)
    /\ SubSeq(s, Len(s) - Len(suffix) + 1, Len(s)) = suffix

\* the transcript up to the current cycle ends with a cycle in which
\* calculate returned 30 and no fallback was taken
AfterPlainCalculate ==
    LET before == SubSeq(prompt, 1, cycle_start)
        plain == RESULT_TURN(<<"30">>) \o ASSISTANT_TURN(CalculateLine)
    IN  /\ response.ok
        /\ endswith(before, plain)
        /\ ~endswith(before, ERROR_TURN \o plain)

\* C9 as stated: the directive dispatched after a successful calculate is a
\* verify, and a cycle in which calculate returned a result leaves the
\* 'Result is X' follow-up or a fallback follow-up in the transcript.
C9_Claim ==
    /\ ( /\ AfterPlainCalculate
         /\ IsFinalAnswer \/ (startswith(result.toks, FC_MARK) /\ validation.ok) ) =>
           IsDirective("verify")
    /\ ( /\ IsDirective("calculate")
         /\ pc \in {"query", "crashed"}
         /\ calls # << >>
         /\ calls[1].status = "ok"
         /\ calls[1].out # << >> ) =>
           \/ Has(Added, RESULT_TURN(calls[1].out))
           \/ Has(Added, ERROR_TURN)

----------------------------------------------------------------------------
(* validate_json as a function of its input: the specification SpecValidate *)
(* draws a line, in `result`, and applies validate_json to it.              *)

ValidateHeads ==
    { FC_PREFIX, FC_MARK, FA_MARK \o <<" ">>, << >>, <<"Let", " ", "me">>,
      <<" ">> \o FC_PREFIX }
ValidateRests == { << >>, <<" ">>, <<"show_reasoning", "|">>, FC_PREFIX }
ValidateNames == { JAbsent, JStr("calculate"), JNum("5"), JArr("[]") }
ValidateArgs ==
    { ArgsAbsent, ArgsObj(NoMembers), ArgsOf("array"), ArgsOf("string"),
      ArgsObj([NoMembers EXCEPT !.expression = JStr("23 + 7")]) }
ValidateDocs ==
    { NoDoc, Doc("array", JAbsent, ArgsAbsent, "[1]"),
      Doc("string", JAbsent, ArgsAbsent, "'calculate'"),
      Doc("number", JAbsent, ArgsAbsent, "5") }
    \cup { Doc("object", n, a, "{...}") : n \in ValidateNames, a \in ValidateArgs }
ValidateInputs ==
    { Line(h \o r, d) : h \in ValidateHeads, r \in ValidateRests, d \in ValidateDocs }

InitValidate ==
    /\ pc = "validate"
    /\ site = "none"
    /\ prompt = << >>
    /\ conversation_history = << >>
    /\ response = [ok |-> FALSE, why |-> "", text |-> EmptyLine]
    /\ result \in ValidateInputs
    /\ validation = ValidationResult(FALSE, NoneDoc, "")
    /\ expression = ""
    /\ value = << >>
    /\ expected = Unbound
    /\ final_answer = Unbound
    /\ calls = << >>
    /\ cycle_start = 0
    /\ history_start = 0
    /\ contents = << >>
    /\ queries = 0
    /\ cycles = 0
    /\ abandoned = 0
    /\ notice = "none"

Validate ==
    /\ pc = "validate"
    /\ validation' = validate_json(result)
    /\ pc' = "validated"
    /\ UNCHANGED <<site, prompt, conversation_history, response, result, expression,
                   value, expected, final_answer, calls, cycle_start, history_start,
                   contents, queries, cycles, abandoned, notice>>

NextValidate == Validate

SpecValidate == InitValidate /\ [][NextValidate]_vars

\* the reference of C10, on the input line `result`
RefHasPrefix ==
    /\ Len(result.toks) >= 2
    /\ result.toks[1] = "FUNCTION_CALL:"
    /\ result.toks[2] = " "
RefIsJson ==
    /\ \A i \in 3..Len(result.toks) : IsSpace(result.toks[i])
    /\ result.doc.t # "none"
RefIsObject == result.doc.t = "object"
RefHasName == result.doc.name.t # "absent"
RefNameIsString == result.doc.name.t = "string"
RefHasArgs == result.doc.args.t # "absent"
RefArgsIsObject == result.doc.args.t = "object"

RefMessage ==
    IF ~RefHasPrefix THEN "Invalid format: Must start with 'FUNCTION_CALL: '"
    ELSE IF ~RefIsJson THEN "Invalid JSON format"
    ELSE IF ~RefIsObject THEN "Invalid JSON: Must be an object"
    ELSE IF ~RefHasName THEN "Missing required field: 'name'"
    ELSE IF ~RefNameIsString THEN "Invalid field: 'name' must be a string"
    ELSE IF ~RefHasArgs THEN "Missing required field: 'args'"
    ELSE IF ~RefArgsIsObject THEN "Invalid field: 'args' must be an object"
    ELSE "Validation successful"

\* C10: validate_json returns (true, the parsed object, message) exactly when
\* the line has the prefix and the rest is a JSON object with a string 'name'
\* and an object 'args'; otherwise (false, None, the message of the first
\* failed check in the order prefix, JSON, object, name, name type, args,
\* args type).
C10_ValidateJsonReference ==
    pc = "validated" =>
        /\ validation.ok <=>
             (RefHasPrefix /\ RefIsJson /\ RefIsObject /\ RefHasName
              /\ RefNameIsString /\ RefHasArgs /\ RefArgsIsObject)
        /\ validation.ok => validation.parsed = result.doc
        /\ ~validation.ok => validation.parsed = NoneDoc
        /\ validation.msg = RefMessage

C10_Witness ==
    /\ pc = "validated"
    /\ RefHasPrefix /\ RefIsJson /\ RefIsObject
    /\ ~RefHasName /\ ~RefHasArgs
    /\ validation = ValidationResult(FALSE, NoneDoc, "Missing required field: 'name'")

----------------------------------------------------------------------------
(* Properties of the transcript and of the calculation history *)

InitialPrompt == <<"system_prompt", "\n\nSolve this problem step by step: ", problem>>

\* C11: the transcript starts as system instructions plus problem statement
\* and is append-only: in every step the transcript before the step is a
\* prefix of the transcript after it.
C11_AppendOnly ==
    /\ [](startswith(prompt, InitialPrompt))
    /\ [][startswith(prompt', prompt)]_vars

\* a cycle that went through an error path and two fallback attempts has
\* only added text
C11_Witness ==
    /\ pc = "query"
    /\ cycles = 2
    /\ Has(prompt, ERROR_TURN)
    /\ Has(prompt, RESULT_TURN(<<"abc">>))
    /\ \E i \in FallbackCalls : calls[i].status = "raise"
    /\ Len(prompt) > cycle_start

----------------------------------------------------------------------------
(* Properties of the dispatch branches *)

\* the calculate tool call of the current cycle returned a result
CalculateReturned ==
    /\ IsDirective("calculate")
    /\ calls # << >>
    /\ calls[1].tool = "calculate"
    /\ calls[1].status = "ok"
    /\ calls[1].out # << >>

\* the self-check query of the current cycle has been answered, or not
SelfCheckAsked == Len(calls) >= 2 /\ calls[2].tool = "generate_content"
SelfCheckMissing == SelfCheckAsked /\ (calls[2].status # "ok" \/ calls[2].out = << >>)
SelfCheckConcern == SelfCheckAsked /\ calls[2].out = <<"looks", " ", "wrong">>

\* C12 as stated: after a calculate call that returned a (numeric) result,
\* whatever the self-check says, the cycle appends the 'Result is X' follow-up
\* and records one CalculationRecord and the loop goes on; a concern triggers
\* a fallback_reasoning call, a missing response the Fallback Handler.
C12_Claim ==
    ( /\ CalculateReturned
      /\ calls[1].out = <<"30">>
      /\ SelfCheckAsked
      /\ pc \in {"query", "crashed"} ) =>
        /\ pc = "query"
        /\ Has(Added, RESULT_TURN(<<"30">>))
        /\ Len(conversation_history) = history_start + 1
        /\ SelfCheckConcern =>
             (Len(calls) >= 3 /\ calls[3].tool = "fallback_reasoning"
              /\ calls[3].arg = "Self-check concerns:")
        /\ SelfCheckMissing =>
             (Len(calls) >= 3 /\ calls[3].tool = "fallback_reasoning"
              /\ calls[3].arg = step_context("self_check_none"))

\* C13 as stated: after every verify directive whose call returned, the
\* 'Verification completed. Next step?' turn is in the transcript before the
\* next model query.
C13_Original ==
    (VerifyReturned /\ pc = "query") => Has(Added, VERIFY_TURN)

\* C13, amended: after a verify directive whose call returned (true, false or
\* empty), the 'Verification completed. Next step?' turn is appended before
\* the next model query when every call of the cycle succeeded (always so for
\* true and empty results); when the extra fallback_reasoning call of a false
\* result raises, the turn is skipped and the error follow-up of the Fallback
\* Handler is appended instead.
C13_VerifyFollowUp ==
    (VerifyReturned /\ pc = "query") =>
        IF \A i \in 1..Len(calls) : calls[i].status = "ok"
        THEN Added = VERIFY_TURN \o ASSISTANT_TURN(result)
        ELSE /\ VerifyFalse
             /\ calls[2].status = "raise"
             /\ ~Has(Added, VERIFY_TURN)
             /\ Has(Added, ERROR_TURN)

C13_Witness ==
    /\ VerifyFalse
    /\ pc = "query"
    /\ Len(calls) = 3
    /\ calls[2].status = "raise"
    /\ calls[3].status = "ok"
    /\ Added = ERROR_TURN \o ASSISTANT_TURN(result)

\* the explicit fallback directives: under the name the system prompt
\* advertises, and under the name the loop dispatches
AdvertisedFallbackLine ==
    Line(FC_PREFIX, Doc("object", JStr("fallback"), ArgsObj(NoMembers), "{fallback unsure}"))
DispatchedFallbackLine ==
    Line(FC_PREFIX, Doc("object", JStr("fallback_reasoning"),
                        ArgsObj([NoMembers EXCEPT !.step_description = JStr("unsure")]),
                        "{fallback_reasoning unsure}"))

\* C14 as stated: an explicit fallback directive results in exactly one
\* fallback_reasoning call with the model's reason and in the corrective
\* follow-up turn before the next model query.
C14_Claim ==
    (CycleOver /\ result \in {AdvertisedFallbackLine, DispatchedFallbackLine}) =>
        /\ Cardinality(FallbackCalls) = 1
        /\ \A i \in FallbackCalls : calls[i].arg = "unsure"
        /\ Has(Added, FALLBACK_TURN)

HandlerContexts ==
    { step_context(s) : s \in {"show_reasoning", "calc_empty", "calculate", "verify"} }

\* the first tool call of a dispatch branch failed
BranchCallFailed ==
    /\ \E name \in {"show_reasoning", "calculate", "verify", "fallback_reasoning"} :
         IsDirective(name) /\ calls # << >> /\ calls[1].tool = name
    /\ (calls[1].status = "raise" \/ (calls[1].tool = "calculate" /\ calls[1].out = << >>))

\* C15 as stated: a failed tool call of any dispatch branch is recovered by
\* one fallback_reasoning call with the 'Error in step: <context>' description
\* and the error follow-up turn, and in no other way.
C15_Claim ==
    (BranchCallFailed /\ pc \in {"query", "crashed"}) =>
        /\ pc = "query"
        /\ Len(calls) = 2
        /\ calls[2].tool = "fallback_reasoning"
        /\ calls[2].arg \in HandlerContexts
        /\ Has(Added, ERROR_TURN)

\* occurrences of the token tok in text
CountTok(text, tok) == Cardinality({i \in 1..Len(text) : text[i] = tok})

\* the response of the current cycle starts with neither marker
IsUnrecognized ==
    /\ response.ok
    /\ ~startswith(result.toks, FC_MARK)
    /\ ~startswith(result.toks, FA_MARK)

\* C16: a cycle that goes back to the model query has appended the model
\* output (its stripped text) exactly once as an assistant turn, as the last
\* text of the cycle, after any follow-up turn; while the cycle is under way,
\* on the FINAL_ANSWER path and on a model non-response no assistant turn is
\* appended (the transcript is the one the query was given, or that one plus
\* follow-up turns of the cycle under way); a line with neither marker only
\* appends its assistant turn: no call, history unchanged.
C16_AssistantTurn ==
    /\ [](/\ (pc = "query" /\ response.ok) =>
              /\ endswith(Added, ASSISTANT_TURN(result))
              /\ CountTok(Added, "\nAssistant: ") = 1
          /\ (response.ok /\ pc # "query") => CountTok(Added, "\nAssistant: ") = 0
          /\ (IsFinalAnswer \/ (~response.ok /\ queries > 0)) => prompt = contents
          /\ IsUnrecognized =>
              /\ pc = "query"
              /\ calls = << >>
              /\ Added = ASSISTANT_TURN(result)
              /\ Len(conversation_history) = history_start)
    /\ [][(queries' = queries + 1 /\ response'.ok
             /\ ~startswith(result'.toks, FC_MARK) /\ ~startswith(result'.toks, FA_MARK)) =>
            /\ prompt' = prompt \o ASSISTANT_TURN(result')
            /\ conversation_history' = conversation_history]_vars

C16_Witness ==
    /\ pc = "query"
    /\ IsDirective("calculate")
    /\ Len(calls) = 3
    /\ Added = ERROR_TURN \o RESULT_TURN(<<"30">>) \o ASSISTANT_TURN(result)
    /\ cycles = 2
    /\ CountTok(prompt, "\nAssistant: ") = 2

\* C17: every main model query is given the whole transcript; one that times
\* out, fails or has no text ends the loop at once with the completion
\* notice, leaving transcript, history and calls as they were; after the end
\* no query and no call is issued.
C17_NoResponseTerminal ==
    /\ [][queries' = queries + 1 => contents' = prompt]_vars
    /\ [][(queries' = queries + 1 /\ ~response'.ok) =>
            /\ pc' = "done"
            /\ notice' = "completed"
            /\ prompt' = prompt
            /\ conversation_history' = conversation_history
            /\ calls' = calls]_vars
    /\ [][pc = "done" =>
            /\ pc' = "done"
            /\ notice' = "completed"
            /\ queries' = queries
            /\ calls' = calls
            /\ prompt' = prompt
            /\ conversation_history' = conversation_history]_vars

C17_Witness ==
    /\ pc = "done"
    /\ ~response.ok
    /\ response.why = "timeout"
    /\ notice = "completed"
    /\ cycles = 2
    /\ queries = 3
    /\ contents = prompt
    /\ conversation_history # << >>
    /\ Has(prompt, RESULT_TURN(<<"30">>))

\* C18 as stated: when the loop issues a tool call or a model query, no
\* earlier model query is still in flight; in particular a timed-out query
\* has ended by then.
C18_Claim ==
    [][(Len(calls') > Len(calls) \/ queries' = queries + 1) => abandoned = 0]_vars

\* the current cycle reached float(value), line 226, on a calculate result
\* that is no number / is a verify directive whose 'expected' is no number
NonNumericResult ==
    /\ IsDirective("calculate")
    /\ Has(Added, RESULT_TURN(<<"abc">>))
UnparsedExpected ==
    /\ IsDirective("verify")
    /\ ~float_json_ok(validation.parsed.args.m.expected)

\* C19 as stated: a calculate result or a verify 'expected' value that is no
\* number never raises out of the loop; its cycle makes no verify call and
\* adds no CalculationRecord, and it ends back at the model query after a
\* fallback_reasoning call of the Fallback Handler and its error follow-up.
C19_Claim ==
    (NonNumericResult \/ UnparsedExpected) =>
        /\ pc # "crashed"
        /\ CallsTo("verify") = {}
        /\ Len(conversation_history) = history_start
        /\ pc = "query" =>
             /\ \E i \in FallbackCalls :
                  /\ calls[i].status = "ok"
                  /\ calls[i].arg \in HandlerContexts \cup {step_context("general")}
             /\ Has(Added, ERROR_TURN)

\* C20 as stated: the calculation history has as many records as the
\* transcript has 'Result is X. Let's verify this step.' follow-up turns; it
\* never gets shorter within a cycle, and it gets longer only in a cycle
\* whose calculate tool call returned a result.
C20_Claim ==
    /\ Len(conversation_history) = CountTok(prompt, "\nUser: Result is ")
    /\ Len(conversation_history) >= history_start
    /\ Len(conversation_history) > history_start => CalculateReturned

====
